---------------------------- MODULE Spec2Model ----------------------------
(***************************************************************************)
(* Model of the CSV item exporter (src/parser.go).                         *)
(*                                                                         *)
(* A Go string is modelled as the sequence of its bytes (ASCII codes), so  *)
(* that trimming, substring search, byte-wise comparison, integer parsing  *)
(* and filename sanitisation are computed as the code computes them.       *)
(* The comment before each literal gives the text it stands for.           *)
(***************************************************************************)
EXTENDS Integers, Sequences, FiniteSets

VARIABLES
    input,        \* the command line and the CSV file it names (fixed per run)
    pc,           \* position of main()
    items,        \* the []Item slice of main()
    categoryMap,  \* map[string][]Item of main()
    todo,         \* categories the range loop has not visited yet
    dirExists,    \* the output directory exists
    fs,           \* output directory: file name -> bytes written (as JSON pairs)
    ops,          \* filesystem operations attempted by the current process
    stdout,       \* lines printed by the current process
    exitCode,     \* exit status of the current process, -1 while running
    run,          \* 1 for the first invocation, 2 for a repeated one
    prev          \* output directory as the first invocation left it

vars == <<input, pc, items, categoryMap, todo, dirExists, fs, ops, stdout,
          exitCode, run, prev>>

-----------------------------------------------------------------------------
(* Bounds of the model *)

\* data rows per input file
MaxRows == 3

-----------------------------------------------------------------------------
(* Configuration *)

\* "Pet", "House Floor", "House Wallpaper", "House", "NPC Skin"
includedCategories ==
    << <<80, 101, 116>>,
       <<72, 111, 117, 115, 101, 32, 70, 108, 111, 111, 114>>,
       <<72, 111, 117, 115, 101, 32, 87, 97, 108, 108, 112, 97, 112, 101, 114>>,
       <<72, 111, 117, 115, 101>>,
       <<78, 80, 67, 32, 83, 107, 105, 110>> >>

\* "Quest", "DONT", "Don't", "Bug"
excludeWords ==
    << <<81, 117, 101, 115, 116>>,
       <<68, 79, 78, 84>>,
       <<68, 111, 110, 39, 116>>,
       <<66, 117, 103>> >>

\* header names "Item ID", "Name", "Category"
ColItemID == <<73, 116, 101, 109, 32, 73, 68>>
ColName == <<78, 97, 109, 101>>
ColCategory == <<67, 97, 116, 101, 103, 111, 114, 121>>

\* "allitems.json"
AllItemsFile == <<97, 108, 108, 105, 116, 101, 109, 115, 46, 106, 115, 111, 110>>

\* ".json"
DotJson == <<46, 106, 115, 111, 110>>

Range(s) == {s[i] : i \in DOMAIN s}

-----------------------------------------------------------------------------
(* strings, strconv *)

\* unicode.IsSpace on the ASCII range: \t \n \v \f \r and space
IsSpace(c) == c \in {9, 10, 11, 12, 13, 32}

RECURSIVE TrimLeft(_)
TrimLeft(s) ==
    IF s # <<>> /\ IsSpace(Head(s)) THEN TrimLeft(Tail(s)) ELSE s

RECURSIVE TrimRight(_)
TrimRight(s) ==
    IF s # <<>> /\ IsSpace(s[Len(s)])
    THEN TrimRight(SubSeq(s, 1, Len(s) - 1))
    ELSE s

\* strings.TrimSpace
TrimSpace(s) == TrimRight(TrimLeft(s))

\* strings.Contains: plain, case-sensitive substring
Contains(s, sub) ==
    \E i \in 0..(Len(s) - Len(sub)) : SubSeq(s, i + 1, i + Len(sub)) = sub

\* strings.HasPrefix
HasPrefix(s, sub) ==
    Len(s) >= Len(sub) /\ SubSeq(s, 1, Len(sub)) = sub

\* Go's < on strings: byte-wise lexicographic
RECURSIVE StrLess(_, _)
StrLess(a, b) ==
    IF b = <<>> THEN FALSE
    ELSE IF a = <<>> THEN TRUE
    ELSE IF Head(a) # Head(b) THEN Head(a) < Head(b)
    ELSE StrLess(Tail(a), Tail(b))

IsDigit(c) == c >= 48 /\ c <= 57

RECURSIVE DigitsVal(_, _)
DigitsVal(s, acc) ==
    IF s = <<>> THEN acc ELSE DigitsVal(Tail(s), acc * 10 + (Head(s) - 48))

\* strconv.Atoi: optional sign, then one or more decimal digits.  The ids of
\* the model are far shorter than 19 digits, so the range error cannot occur.
Atoi(s) ==
    LET signed == s # <<>> /\ Head(s) \in {43, 45}
        digits == IF signed THEN Tail(s) ELSE s
        ok == digits # <<>> /\ \A i \in DOMAIN digits : IsDigit(digits[i])
    IN  [err |-> ~ok,
         val |-> IF ~ok THEN 0
                 ELSE IF signed /\ Head(s) = 45 THEN 0 - DigitsVal(digits, 0)
                 ELSE DigitsVal(digits, 0)]

-----------------------------------------------------------------------------
(* encoding/csv as processCSV uses it *)

\* A file is a sequence of lines.  A line is the record the reader parses from
\* it, or a line with a bare quote, on which the reader reports a ParseError.
\* Blank lines, which the reader skips, are not represented.
Line(fields) == [fields |-> fields, bad |-> FALSE]

BadLine == [fields |-> << <<34>> >>, bad |-> TRUE]

\* csv.Reader.Read with the zero value of FieldsPerRecord, as csv.NewReader
\* leaves it: the first record fixes the field count of every later one.
\* fieldsPerRecord = 0 stands for "not read yet".
ReaderRead(lines, pos, fieldsPerRecord) ==
    IF pos > Len(lines) THEN [record |-> <<>>, err |-> "EOF"]
    ELSE IF lines[pos].bad THEN [record |-> <<>>, err |-> "ErrQuote"]
    ELSE IF fieldsPerRecord > 0 /\ Len(lines[pos].fields) # fieldsPerRecord
         THEN [record |-> lines[pos].fields, err |-> "ErrFieldCount"]
    ELSE [record |-> lines[pos].fields, err |-> "nil"]

-----------------------------------------------------------------------------
(* processCSV *)

max(values) == CHOOSE v \in values : \A w \in values : w <= v

\* The header loop: the last column whose trimmed name matches wins.
\* Positions are 1-based here; 0 stands for Go's -1.
ColumnIndex(header, name) ==
    max({0} \cup {i \in DOMAIN header : TrimSpace(header[i]) = name})

categoryIncluded(category) ==
    \E k \in DOMAIN includedCategories : category = includedCategories[k]

nameContainsExcluded_prefix(name) ==
    \E k \in DOMAIN excludeWords : HasPrefix(name, excludeWords[k])

nameContainsExcluded(name) ==
    \E k \in DOMAIN excludeWords : Contains(name, excludeWords[k])

\* The row loop of processCSV from line `pos` on; acc is the items slice.
RECURSIVE ReadRows(_, _, _, _, _, _, _)
ReadRows(lines, pos, fpr, itemIDIndex, nameIndex, categoryIndex, acc) ==
    LET r == ReaderRead(lines, pos, fpr)
        record == r.record
        itemID == TrimSpace(record[itemIDIndex])
        name == TrimSpace(record[nameIndex])
        category == TrimSpace(record[categoryIndex])
        next(a) == ReadRows(lines, pos + 1, fpr, itemIDIndex, nameIndex,
                            categoryIndex, a)
    IN  IF r.err = "EOF" THEN [items |-> acc, err |-> "nil"]
        ELSE IF r.err # "nil" THEN [items |-> <<>>, err |-> "row"]
        ELSE IF Len(record) < max({itemIDIndex, nameIndex, categoryIndex})
             THEN next(acc)
        ELSE IF itemID = <<>> \/ name = <<>> \/ category = <<>> THEN next(acc)
        ELSE IF ~categoryIncluded(category) THEN next(acc)
        ELSE IF nameContainsExcluded(name) THEN next(acc)
        ELSE next(Append(acc, [ID |-> itemID, Name |-> name,
                                Category |-> category]))

processCSV(file) ==
    LET h == ReaderRead(file.lines, 1, 0)
        header == h.record
        itemIDIndex == ColumnIndex(header, ColItemID)
        nameIndex == ColumnIndex(header, ColName)
        categoryIndex == ColumnIndex(header, ColCategory)
    IN  IF ~file.openable THEN [items |-> <<>>, err |-> "open"]
        ELSE IF h.err # "nil" THEN [items |-> <<>>, err |-> "header"]
        ELSE IF itemIDIndex = 0 \/ nameIndex = 0 \/ categoryIndex = 0
             THEN [items |-> <<>>, err |-> "columns"]
        ELSE ReadRows(file.lines, 2, Len(header), itemIDIndex, nameIndex,
                      categoryIndex, <<>>)

-----------------------------------------------------------------------------
(* sortItemsByID *)

\* The less function handed to sort.Slice.
less(a, b) ==
    LET idI == Atoi(a.ID)
        idJ == Atoi(b.ID)
    IN  IF ~idI.err /\ ~idJ.err THEN idI.val < idJ.val
        ELSE StrLess(a.ID, b.ID)

\* sort.Slice on a short slice (at most 12 elements) is an insertion sort:
\* each element moves left while it is less than its left neighbour.
RECURSIVE Insert(_, _)
Insert(s, x) ==
    IF s # <<>> /\ less(x, s[Len(s)])
    THEN Append(Insert(SubSeq(s, 1, Len(s) - 1), x), s[Len(s)])
    ELSE Append(s, x)

RECURSIVE InsertionSort(_)
InsertionSort(s) ==
    IF s = <<>> THEN <<>>
    ELSE Insert(InsertionSort(SubSeq(s, 1, Len(s) - 1)), s[Len(s)])

Arrangements(s) ==
    { [i \in DOMAIN s |-> s[f[i]]] :
        f \in { g \in [DOMAIN s -> DOMAIN s] :
                  \A i, j \in DOMAIN s : i # j => g[i] # g[j] } }

\* No element is less than an element placed before it.
Ordered(s) == \A i, j \in DOMAIN s : i < j => ~less(s[j], s[i])

\* sort.Slice is documented as not stable, and on slices longer than 12
\* elements its quicksort does reorder elements that compare equal.  The
\* slices of the model are short, so the outcomes are the insertion sort's
\* result and every ordered arrangement the longer-slice algorithm may leave:
\* the ones that differ only in the placement of equal elements.
sortItemsByID(s) == {InsertionSort(s)} \cup {p \in Arrangements(s) : Ordered(p)}

-----------------------------------------------------------------------------
(* convertItemsToMap, saveMapToJSON, sanitizeFilename *)

EmptyMap == [k \in {} |-> <<>>]

RECURSIVE convertItemsToMap_firstWins(_)
convertItemsToMap_firstWins(s) ==
    IF s = <<>> THEN EmptyMap
    ELSE LET result == convertItemsToMap_firstWins(SubSeq(s, 1, Len(s) - 1))
             item == s[Len(s)]
         IN  [k \in DOMAIN result \cup {item.ID} |->
                 IF k \in DOMAIN result THEN result[k] ELSE item.Name]

\* result[item.ID] = item.Name for each item in slice order
RECURSIVE convertItemsToMap(_)
convertItemsToMap(s) ==
    IF s = <<>> THEN EmptyMap
    ELSE LET result == convertItemsToMap(SubSeq(s, 1, Len(s) - 1))
             item == s[Len(s)]
         IN  [k \in DOMAIN result \cup {item.ID} |->
                 IF k = item.ID THEN item.Name ELSE result[k]]

RECURSIVE SortedKeys(_)
SortedKeys(S) ==
    IF S = {} THEN <<>>
    ELSE LET k == CHOOSE x \in S : \A o \in S \ {x} : StrLess(x, o)
         IN  <<k>> \o SortedKeys(S \ {k})

\* json.MarshalIndent of a map[string]string: one "key": "value" member per
\* key, the keys in byte-wise ascending order.  It cannot fail on this type.
MarshalIndent(itemMap) ==
    LET keys == SortedKeys(DOMAIN itemMap)
    IN  [i \in DOMAIN keys |-> <<keys[i], itemMap[keys[i]]>>]

\* Content of a file: the JSON members written, and whether the write
\* completed.  A file that os.WriteFile truncated and then failed to fill
\* has whole = FALSE.
Written(itemMap) == [json |-> MarshalIndent(itemMap), whole |-> TRUE]

Truncated == [json |-> <<>>, whole |-> FALSE]

\* Outcomes of os.WriteFile: success, failure to open (file untouched),
\* failure after truncation.
WriteOutcomes == {"ok", "openFailed", "writeFailed"}

\* The output directory after saveMapToJSON(path, itemMap) ended with outcome.
saveMapToJSON(files, path, itemMap, outcome) ==
    IF outcome = "openFailed" THEN files
    ELSE [p \in DOMAIN files \cup {path} |->
            IF p # path THEN files[p]
            ELSE IF outcome = "ok" THEN Written(itemMap) ELSE Truncated]

IsFilenameChar(r) ==
    \/ r >= 97 /\ r <= 122
    \/ r >= 65 /\ r <= 90
    \/ r >= 48 /\ r <= 57
    \/ r = 95
    \/ r = 45

\* A sanitiser that cuts the name at its first space.
sanitizeFilename_cut(name) ==
    LET sp == {i \in DOMAIN name : name[i] = 32}
    IN  IF sp = {} THEN name
        ELSE SubSeq(name, 1, (CHOOSE i \in sp : \A j \in sp : i <= j) - 1)

sanitizeFilename(name) ==
    LET spaced == [i \in DOMAIN name |-> IF name[i] = 32 THEN 95 ELSE name[i]]
    IN  [i \in DOMAIN spaced |->
            IF IsFilenameChar(spaced[i]) THEN spaced[i] ELSE 95]

\* filename := sanitizeFilename(category) + ".json"; the path is taken
\* relative to the output directory.
CategoryPath(category) == sanitizeFilename(category) \o DotJson

\* categoryMap[item.Category] = append(categoryMap[item.Category], item)
groupByCategory(s) ==
    [c \in {s[i].Category : i \in DOMAIN s} |->
        SelectSeq(s, LAMBDA it : it.Category = c)]

-----------------------------------------------------------------------------
(* Input files *)

SeqsUpTo(S, n) == UNION {[1..k -> S] : k \in 0..n}

\* Item ID,Name,Category
StdHeader == Line(<<ColItemID, ColName, ColCategory>>)

\* Item ID,Name
NoCategoryHeader == Line(<<ColItemID, ColName>>)

\* " Category","Name ","Item ID": other order, padded names
PaddedHeader ==
    Line(<< <<32, 67, 97, 116, 101, 103, 111, 114, 121>>,
            <<78, 97, 109, 101, 32>>,
            ColItemID >>)

\* Item ID,Name,Category,Notes
WideHeader == Line(<<ColItemID, ColName, ColCategory, <<78, 111, 116, 101, 115>> >>)

\* 1,Red Chair,House
RowChair ==
    Line(<< <<49>>, <<82, 101, 100, 32, 67, 104, 97, 105, 114>>,
            <<72, 111, 117, 115, 101>> >>)

\* 2,Sofa,House
RowSofa == Line(<< <<50>>, <<83, 111, 102, 97>>, <<72, 111, 117, 115, 101>> >>)

\* 2,Bed,House
RowBed == Line(<< <<50>>, <<66, 101, 100>>, <<72, 111, 117, 115, 101>> >>)

\* 10,Blue Pet,Pet
RowPet == Line(<< <<49, 48>>, <<66, 108, 117, 101, 32, 80, 101, 116>>, <<80, 101, 116>> >>)

\* 1a,Rug,House Floor
RowRug ==
    Line(<< <<49, 97>>, <<82, 117, 103>>,
            <<72, 111, 117, 115, 101, 32, 70, 108, 111, 111, 114>> >>)

\* 2,Quest Banner,House
RowQuest ==
    Line(<< <<50>>, <<81, 117, 101, 115, 116, 32, 66, 97, 110, 110, 101, 114>>,
            <<72, 111, 117, 115, 101>> >>)

\* 6,Lamp
RowShort == Line(<< <<54>>, <<76, 97, 109, 112>> >>)

\* 3,Big Bug,Pet
RowBigBug == Line(<< <<51>>, <<66, 105, 103, 32, 66, 117, 103>>, <<80, 101, 116>> >>)

\* 4,bug,Pet
RowLowerBug == Line(<< <<52>>, <<98, 117, 103>>, <<80, 101, 116>> >>)

\* " 10 "," Cat ","Pet "
RowPadded == Line(<< <<32, 49, 48, 32>>, <<32, 67, 97, 116, 32>>, <<80, 101, 116, 32>> >>)

\* "",Hat,Pet
RowNoID == Line(<< <<>>, <<72, 97, 116>>, <<80, 101, 116>> >>)

\* 4,"  ",Pet
RowBlankName == Line(<< <<52>>, <<32, 32>>, <<80, 101, 116>> >>)

\* 5,Hat," "
RowBlankCategory == Line(<< <<53>>, <<72, 97, 116>>, <<32>> >>)

\* 5,Hat,pet
RowLowerCategory == Line(<< <<53>>, <<72, 97, 116>>, <<112, 101, 116>> >>)

\* 5,Hat,House.Floor
RowDotCategory ==
    Line(<< <<53>>, <<72, 97, 116>>,
            <<72, 111, 117, 115, 101, 46, 70, 108, 111, 111, 114>> >>)

\* Pet,Blue Pet,3
RowSwapped == Line(<< <<80, 101, 116>>, <<66, 108, 117, 101, 32, 80, 101, 116>>, <<51>> >>)

\* 7,Hat,Pet,x
RowWide == Line(<< <<55>>, <<72, 97, 116>>, <<80, 101, 116>>, <<120>> >>)

File(lines) == [openable |-> TRUE, lines |-> lines]

Unopenable == [openable |-> FALSE, lines |-> <<>>]

NoFileFlag == [given |-> FALSE, file |-> Unopenable]

\* Rows of the export runs: accepted rows with ids that repeat, that mix
\* integers and non-integers, in three categories; a rejected and a short row.
MainRows == {RowChair, RowSofa, RowBed, RowPet, RowRug, RowQuest, RowShort}

MainFiles ==
    {Unopenable, File(<<NoCategoryHeader>>)}
        \cup {File(<<StdHeader>> \o rows) : rows \in SeqsUpTo(MainRows, MaxRows)}

\* Rows of the filter runs: every way a row is accepted or rejected.
FilterRows ==
    {RowChair, RowPet, RowRug, RowQuest, RowBigBug, RowLowerBug, RowPadded,
     RowNoID, RowBlankName, RowBlankCategory, RowLowerCategory, RowDotCategory,
     RowSwapped, RowShort, RowWide, BadLine}

FilterHeaders == {StdHeader, PaddedHeader, WideHeader}

FilterFiles ==
    {Unopenable, File(<<>>), File(<<BadLine>>), File(<<NoCategoryHeader>>)}
        \cup {File(<<h>> \o rows) :
                h \in FilterHeaders, rows \in SeqsUpTo(FilterRows, MaxRows)}

-----------------------------------------------------------------------------
(* main *)

Msg(kind, label, path, n) == [kind |-> kind, label |-> label, path |-> path, n |-> n]

Op(op, path, ok) == [op |-> op, path |-> path, ok |-> ok]

InitWith(files) ==
    /\ input \in {NoFileFlag} \cup {[given |-> TRUE, file |-> f] : f \in files}
    /\ pc = "start"
    /\ items = <<>>
    /\ categoryMap = EmptyMap
    /\ todo = {}
    /\ dirExists \in BOOLEAN
    /\ fs = EmptyMap
    /\ ops = <<>>
    /\ stdout = <<>>
    /\ exitCode = -1
    /\ run = 1
    /\ prev = EmptyMap

Init == InitWith(MainFiles)

InitFilter == InitWith(FilterFiles)

\* os.Exit(1) after printing msg
Fatal(msg) ==
    /\ stdout' = Append(stdout, msg)
    /\ exitCode' = 1
    /\ pc' = "exited"

\* if *inputFile == "" { usage; os.Exit(1) }
Usage ==
    /\ pc = "start"
    /\ ~input.given
    /\ Fatal(Msg("usage", <<>>, <<>>, 0))
    /\ UNCHANGED <<input, items, categoryMap, todo, dirExists, fs, ops, run, prev>>

\* items, err := processCSV(*inputFile)
ProcessCSV ==
    /\ pc = "start"
    /\ input.given
    /\ LET r == processCSV(input.file)
       IN  /\ ops' = Append(ops, Op("open", <<>>, r.err # "open"))
           /\ IF r.err # "nil"
              THEN /\ Fatal(Msg("errorProcessingCSV", <<>>, <<>>, 0))
                   /\ UNCHANGED items
              ELSE /\ items' = r.items
                   /\ pc' = "sort"
                   /\ UNCHANGED <<stdout, exitCode>>
    /\ UNCHANGED <<input, categoryMap, todo, dirExists, fs, run, prev>>

\* sortItemsByID(items)
SortItems ==
    /\ pc = "sort"
    /\ \E sorted \in sortItemsByID(items) : items' = sorted
    /\ pc' = "mkdir"
    /\ UNCHANGED <<input, categoryMap, todo, dirExists, fs, ops, stdout,
                   exitCode, run, prev>>

\* MkdirAll whose failure is reported but does not end the run.
MkdirAll_reportOnly ==
    /\ pc = "mkdir"
    /\ \E ok \in {TRUE, dirExists} :
          /\ ops' = Append(ops, Op("mkdir", <<>>, ok))
          /\ dirExists' = (dirExists \/ ok)
          /\ stdout' = IF ok THEN stdout
                       ELSE Append(stdout, Msg("errorCreatingDir", <<>>, <<>>, 0))
          /\ pc' = "saveAll"
    /\ UNCHANGED <<input, items, categoryMap, todo, fs, exitCode, run, prev>>

\* os.MkdirAll(*outputDir, 0755): nil when the directory exists already
MkdirAll ==
    /\ pc = "mkdir"
    /\ \E ok \in {TRUE, dirExists} :
          /\ ops' = Append(ops, Op("mkdir", <<>>, ok))
          /\ IF ok
             THEN /\ dirExists' = TRUE
                  /\ pc' = "saveAll"
                  /\ UNCHANGED <<stdout, exitCode>>
             ELSE /\ Fatal(Msg("errorCreatingDir", <<>>, <<>>, 0))
                  /\ UNCHANGED dirExists
    /\ UNCHANGED <<input, items, categoryMap, todo, fs, run, prev>>

\* allItemsMap := convertItemsToMap(items); saveMapToJSON(allItemsPath, ...)
SaveAllItems ==
    /\ pc = "saveAll"
    /\ \E outcome \in WriteOutcomes :
          /\ fs' = saveMapToJSON(fs, AllItemsFile, convertItemsToMap(items), outcome)
          /\ ops' = Append(ops, Op("write", AllItemsFile, outcome = "ok"))
          /\ IF outcome = "ok"
             THEN /\ stdout' = Append(stdout, Msg("allSaved", <<>>, AllItemsFile, 0))
                  /\ pc' = "group"
                  /\ UNCHANGED exitCode
             ELSE Fatal(Msg("errorSavingAll", <<>>, AllItemsFile, 0))
    /\ UNCHANGED <<input, items, categoryMap, todo, dirExists, run, prev>>

\* categoryMap := make(map[string][]Item); for _, item := range items {...}
GroupItems ==
    /\ pc = "group"
    /\ categoryMap' = groupByCategory(items)
    /\ todo' = DOMAIN groupByCategory(items)
    /\ pc' = "saveCategories"
    /\ UNCHANGED <<input, items, dirExists, fs, ops, stdout, exitCode, run, prev>>

\* A loop body that treats a category's write failure like the aggregate's.
SaveCategory_abort ==
    /\ pc = "saveCategories"
    /\ \E category \in todo, outcome \in WriteOutcomes :
          LET categoryItems == categoryMap[category]
              categoryPath == CategoryPath(category)
          IN  /\ fs' = saveMapToJSON(fs, categoryPath,
                                     convertItemsToMap(categoryItems), outcome)
              /\ ops' = Append(ops, Op("write", categoryPath, outcome = "ok"))
              /\ todo' = todo \ {category}
              /\ IF outcome = "ok"
                 THEN /\ stdout' = Append(stdout,
                            Msg("categorySaved", category, categoryPath,
                                Len(categoryItems)))
                      /\ UNCHANGED <<pc, exitCode>>
                 ELSE Fatal(Msg("errorSavingCategory", category, categoryPath, 0))
    /\ UNCHANGED <<input, items, categoryMap, dirExists, run, prev>>

\* One iteration of the range loop over categoryMap; Go visits the keys of a
\* map in an unspecified order.
SaveCategory ==
    /\ pc = "saveCategories"
    /\ \E category \in todo, outcome \in WriteOutcomes :
          LET categoryItems == categoryMap[category]
              categoryPath == CategoryPath(category)
          IN  /\ fs' = saveMapToJSON(fs, categoryPath,
                                     convertItemsToMap(categoryItems), outcome)
              /\ ops' = Append(ops, Op("write", categoryPath, outcome = "ok"))
              /\ stdout' = Append(stdout,
                    IF outcome = "ok"
                    THEN Msg("categorySaved", category, categoryPath,
                             Len(categoryItems))
                    ELSE Msg("errorSavingCategory", category, categoryPath, 0))
              /\ todo' = todo \ {category}
    /\ UNCHANGED <<input, pc, items, categoryMap, dirExists, exitCode, run, prev>>

\* The two summary lines, then main returns.
Summary ==
    /\ pc = "saveCategories"
    /\ todo = {}
    /\ stdout' = stdout \o <<Msg("totalItems", <<>>, <<>>, Len(items)),
                             Msg("categoryFiles", <<>>, <<>>,
                                 Cardinality(DOMAIN categoryMap))>>
    /\ exitCode' = 0
    /\ pc' = "exited"
    /\ UNCHANGED <<input, items, categoryMap, todo, dirExists, fs, ops, run, prev>>

\* The same command is run once more, on the same input file and output
\* directory, after a run in which every operation succeeded.
Rerun ==
    /\ pc = "exited"
    /\ run = 1
    /\ exitCode = 0
    /\ \A i \in DOMAIN ops : ops[i].ok
    /\ run' = 2
    /\ prev' = fs
    /\ pc' = "start"
    /\ items' = <<>>
    /\ categoryMap' = EmptyMap
    /\ todo' = {}
    /\ ops' = <<>>
    /\ stdout' = <<>>
    /\ exitCode' = -1
    /\ UNCHANGED <<input, dirExists, fs>>

Next ==
    \/ Usage
    \/ ProcessCSV
    \/ SortItems
    \/ MkdirAll
    \/ SaveAllItems
    \/ GroupItems
    \/ SaveCategory
    \/ Summary

NextFilter ==
    \/ Usage
    \/ ProcessCSV

NextTwice ==
    \/ Next
    \/ Rerun

\* One invocation on files of export rows.
Spec == Init /\ [][Next]_vars

\* Loading and filtering alone, on files of every kind of row.
SpecFilter == InitFilter /\ [][NextFilter]_vars

\* Two invocations in a row.
SpecTwice == Init /\ [][NextTwice]_vars

-----------------------------------------------------------------------------
(* Properties *)

\* What the input file holds, read off the file itself.
Header == input.file.lines[1].fields

DataRows == 2..Len(input.file.lines)

Fields(r) == input.file.lines[r].fields

HighestIndex ==
    max({ColumnIndex(Header, ColItemID), ColumnIndex(Header, ColName),
         ColumnIndex(Header, ColCategory)})

HeaderResolved ==
    /\ input.given
    /\ input.file.openable
    /\ input.file.lines # <<>>
    /\ ~input.file.lines[1].bad
    /\ ColumnIndex(Header, ColItemID) > 0
    /\ ColumnIndex(Header, ColName) > 0
    /\ ColumnIndex(Header, ColCategory) > 0

\* The three fields of data row r, trimmed.
RowRecord(r) ==
    [ID |-> TrimSpace(Fields(r)[ColumnIndex(Header, ColItemID)]),
     Name |-> TrimSpace(Fields(r)[ColumnIndex(Header, ColName)]),
     Category |-> TrimSpace(Fields(r)[ColumnIndex(Header, ColCategory)])]

\* Row r has all three fields, none empty after trimming.
Complete(r) ==
    /\ ~input.file.lines[r].bad
    /\ Len(Fields(r)) >= HighestIndex
    /\ RowRecord(r).ID # <<>>
    /\ RowRecord(r).Name # <<>>
    /\ RowRecord(r).Category # <<>>

IsShort(r) == ~input.file.lines[r].bad /\ Len(Fields(r)) < HighestIndex

Loaded == input.given /\ pc # "start"

\* C1: every record processCSV returns has a non-empty trimmed id, name and
\* category, a category equal to an allow-list entry and a name containing no
\* exclude-word; every record comes from a row that has all three fields, so
\* a row missing one of them yields no record.
C1_FilterInvariant ==
    Loaded =>
      /\ \A i \in DOMAIN items :
            /\ items[i].ID # <<>> /\ TrimSpace(items[i].ID) = items[i].ID
            /\ items[i].Name # <<>> /\ TrimSpace(items[i].Name) = items[i].Name
            /\ items[i].Category # <<>>
            /\ items[i].Category \in Range(includedCategories)
            /\ \A w \in Range(excludeWords) : ~Contains(items[i].Name, w)
      /\ items # <<>> =>
            /\ HeaderResolved
            /\ \A i \in DOMAIN items :
                  \E r \in DataRows : Complete(r) /\ items[i] = RowRecord(r)
            /\ Len(items) <= Cardinality({r \in DataRows : Complete(r)})

\* A load that returned records, dropped a row with an empty field and a row
\* whose name holds an exclude-word after its first byte.
C1_Witness ==
    /\ pc = "sort"
    /\ items # <<>>
    /\ \E r \in DataRows :
          ~input.file.lines[r].bad /\ Len(Fields(r)) >= HighestIndex /\ ~Complete(r)
    /\ \E r \in DataRows :
          /\ Complete(r)
          /\ \E w \in Range(excludeWords) :
                Contains(RowRecord(r).Name, w) /\ ~HasPrefix(RowRecord(r).Name, w)

\* The file without its short rows.
WithoutShortRows ==
    File(<<input.file.lines[1]>>
            \o SelectSeq(SubSeq(input.file.lines, 2, Len(input.file.lines)),
                         LAMBDA l : l.bad \/ Len(l.fields) >= HighestIndex))

\* Nothing but short rows is unusual about the file.
OnlyShortRowsOdd ==
    /\ HeaderResolved
    /\ \E r \in DataRows : IsShort(r)
    /\ \A r \in DataRows :
          ~input.file.lines[r].bad /\ (IsShort(r) \/ Len(Fields(r)) = Len(Header))

\* C2: a data row with fewer columns than the highest resolved index + 1 is
\* skipped: the load reports no error and returns what the other rows yield.
C2_ShortRowSkipped ==
    (Loaded /\ OnlyShortRowsOdd) =>
      /\ exitCode # 1
      /\ pc = "sort"
      /\ items = processCSV(WithoutShortRows).items

\* sortItemsByID has returned.
Sorted ==
    \/ pc \in {"mkdir", "saveAll", "group", "saveCategories"}
    \/ pc = "exited" /\ Len(ops) > 1

\* The ids "10", "2", "abc", "1" of the example, as records of one category.
ExampleItem(id) == [ID |-> id, Name |-> <<120>>, Category |-> <<80, 101, 116>>]

ExampleInput ==
    <<ExampleItem(<<49, 48>>), ExampleItem(<<50>>),
      ExampleItem(<<97, 98, 99>>), ExampleItem(<<49>>)>>

ExampleOutput ==
    <<ExampleItem(<<49>>), ExampleItem(<<50>>),
      ExampleItem(<<49, 48>>), ExampleItem(<<97, 98, 99>>)>>

\* C3: after the sort no record is placed after a record it compares strictly
\* before; the ids "10", "2", "abc", "1" come out as "1", "2", "10", "abc".
C3_TotalOrder ==
    /\ sortItemsByID(ExampleInput) = {ExampleOutput}
    /\ Sorted => Ordered(items)

\* Neither record compares before the other.
SameKey(a, b) == ~less(a, b) /\ ~less(b, a)

\* C4: records whose ids are equal under the comparator keep, in the sorted
\* slice, the relative order they had in the input file.
C4_Stable ==
    Sorted =>
      \A x \in Range(items) :
          SelectSeq(items, LAMBDA y : SameKey(x, y))
            = SelectSeq(processCSV(input.file).items, LAMBDA y : SameKey(x, y))

\* The successful writes of category files, as positions of ops.
CategoryWrites == {i \in DOMAIN ops : ops[i].op = "write" /\ ops[i].path # AllItemsFile}

WriteSucceeded(path) == \E i \in DOMAIN ops : ops[i] = Op("write", path, TRUE)

\* The name of the last record of s with this id.
LastName(s, id) == s[max({i \in DOMAIN s : s[i].ID = id})].Name

\* The file holds a complete table with each id of s as a key exactly once,
\* mapped to the name of the last record of s with that id, and no other key.
HoldsTableOf(content, s) ==
    /\ content.whole
    /\ \A i \in DOMAIN s :
          Cardinality({k \in DOMAIN content.json : content.json[k][1] = s[i].ID}) = 1
    /\ \A k \in DOMAIN content.json :
          /\ \E i \in DOMAIN s : s[i].ID = content.json[k][1]
          /\ content.json[k][2] = LastName(s, content.json[k][1])

OfCategory(s, category) == SelectSeq(s, LAMBDA it : it.Category = category)

HasDuplicateID(s) ==
    \E i, j \in DOMAIN s : i < j /\ s[i].ID = s[j].ID /\ s[i].Name # s[j].Name

\* C5: every table written has each id of the records feeding it as a key
\* exactly once, with the name of the last of them in the sorted slice; a
\* duplicate id does not make the run fail.
C5_LastWriteWins ==
    /\ WriteSucceeded(AllItemsFile) => HoldsTableOf(fs[AllItemsFile], items)
    /\ \A c \in {items[i].Category : i \in DOMAIN items} :
          WriteSucceeded(CategoryPath(c))
            => HoldsTableOf(fs[CategoryPath(c)], OfCategory(items, c))
    /\ (pc = "exited" /\ Sorted /\ HasDuplicateID(items)
          /\ \A i \in DOMAIN ops : ops[i].ok) => exitCode = 0

\* A finished run that wrote, for records sharing an id under different
\* names, both the aggregate and their category's file.
C5_Witness ==
    /\ pc = "exited"
    /\ exitCode = 0
    /\ \E i, j \in DOMAIN items :
          /\ i < j
          /\ items[i].ID = items[j].ID
          /\ items[i].Name # items[j].Name
          /\ items[i].Category = items[j].Category
          /\ WriteSucceeded(CategoryPath(items[i].Category))
    /\ WriteSucceeded(AllItemsFile)

LoadError == processCSV(input.file).err

IsFatalOp(o) == o.op \in {"open", "mkdir"} \/ o.path = AllItemsFile

\* C6: the effects come in the order open input, create directory, write
\* allitems.json, write category files; when the load fails nothing is
\* created or written, when the directory cannot be created nothing is
\* written, when the aggregate write fails no category file is written, and
\* each of these ends the process with status 1.
C6_StagesInOrder ==
    /\ \A i \in DOMAIN ops :
          /\ ops[i].op = "open" => i = 1
          /\ ops[i].op = "mkdir" => i = 2
          /\ (ops[i].op = "write" /\ ops[i].path = AllItemsFile) => i = 3
          /\ i \in CategoryWrites => i > 3
          /\ (IsFatalOp(ops[i]) /\ ~ops[i].ok)
                => i = Len(ops) /\ pc = "exited" /\ exitCode = 1
    /\ (Loaded /\ LoadError # "nil")
          => /\ pc = "exited" /\ exitCode = 1
             /\ Len(ops) = 1
             /\ ops[1].ok = (LoadError # "open")
             /\ fs = EmptyMap
    /\ (Len(ops) >= 2 /\ ~ops[2].ok) => ~dirExists /\ fs = EmptyMap
    /\ (Len(ops) >= 3 /\ ~ops[3].ok) => DOMAIN fs \subseteq {AllItemsFile}
    /\ DOMAIN fs # {} => dirExists

\* A run with records to export that ended on a failed aggregate write.
C6_Witness ==
    /\ pc = "exited"
    /\ items # <<>>
    /\ Len(ops) = 3
    /\ ~ops[3].ok

SummaryPrinted ==
    \E k \in DOMAIN stdout : stdout[k].kind = "categoryFiles"

\* C7: once a category's write has failed the run still goes on: it is in
\* the loop or has ended, and when it has ended the write of every category
\* of the filtered data was attempted, the summary was printed and the exit
\* status is zero.
C7_CategoryFailureNonFatal ==
    (\E i \in CategoryWrites : ~ops[i].ok) =>
      /\ pc \in {"saveCategories", "exited"}
      /\ pc = "exited" =>
            /\ exitCode = 0
            /\ SummaryPrinted
            /\ \A c \in {items[i].Category : i \in DOMAIN items} :
                  \E i \in CategoryWrites : ops[i].path = CategoryPath(c)

\* A finished run in which a category's write failed and a later one succeeded.
C7_Witness ==
    /\ pc = "exited"
    /\ \E i, j \in CategoryWrites : i < j /\ ~ops[i].ok /\ ops[j].ok

\* C8: when the summary is printed, the number of category files it reports
\* is the number of category files written in the run, and the item count it
\* reports is the number of accepted records.
C8_SummaryCounts ==
    (pc = "exited" /\ SummaryPrinted) =>
      /\ \E k \in DOMAIN stdout :
            /\ stdout[k].kind = "categoryFiles"
            /\ stdout[k].n = Cardinality({i \in CategoryWrites : ops[i].ok})
      /\ \E k \in DOMAIN stdout :
            /\ stdout[k].kind = "totalItems"
            /\ stdout[k].n = Len(processCSV(input.file).items)

C10_NoOverwrite ==
    /\ \A k, l \in DOMAIN includedCategories :
          /\ k # l => CategoryPath(includedCategories[k])
                        # CategoryPath(includedCategories[l])
          /\ CategoryPath(includedCategories[k]) # AllItemsFile
    /\ pc = "exited" =>
          /\ WriteSucceeded(AllItemsFile)
                => fs[AllItemsFile] = Written(convertItemsToMap(items))
          /\ \A c \in {items[i].Category : i \in DOMAIN items} :
                WriteSucceeded(CategoryPath(c))
                  => fs[CategoryPath(c)]
                       = Written(convertItemsToMap(OfCategory(items, c)))

\* A finished run that wrote the files of "House" and of "House Floor".
C10_Witness ==
    /\ pc = "exited"
    /\ exitCode = 0
    /\ \A i \in DOMAIN ops : ops[i].ok
    /\ {includedCategories[2], includedCategories[4]}
          \subseteq {items[i].Category : i \in DOMAIN items}

=============================================================================
